---------------------------- MODULE Spec2Model ----------------------------
(***************************************************************************)
(* A model of yolo-tfjs (src/src/index.ts): the YOLO class with its        *)
(* configuration (setup), the loading of a model (loadModel), the         *)
(* detection pipeline (detect, preprocess, renderBoxes) and the streaming  *)
(* frame loop (detectVideo).                                               *)
(*                                                                         *)
(* Numbers.  Scores and thresholds are integers in hundredths (0.5 is 50). *)
(* Model-space coordinates are integers.  A value the code obtains by a    *)
(* division ((x - dx) / scale) is an exact rational <<n, d>> with d > 0;   *)
(* floating-point rounding is not modelled.                                *)
(*                                                                         *)
(* JavaScript runs every synchronous stretch of code to completion, so     *)
(* each action is one such stretch: from a call or a resumption up to the  *)
(* next await or return.                                                   *)
(***************************************************************************)
EXTENDS Integers, Sequences, FiniteSets, TLC

VARIABLES
    config,        \* YOLO.config of the one YOLO instance
    call,          \* the one-shot detect call: its position and locals
    canvas,        \* the canvas of the one-shot call: size and what is drawn
    payload,       \* what the one-shot call's callback received
    started,       \* started[l]: detectVideo was called for loop l
    raf,           \* raf[l]: callbacks of loop l queued by requestAnimationFrame
    inflight,      \* inflight[l]: detect activations of loop l suspended at the await
    rejected,      \* rejected[l]: a detectFrame promise of loop l was rejected
    tickNo,        \* tickNo[l]: how many times detectFrame of loop l ran
    video,         \* video[l]: videoWidth and srcObject of loop l's video element
    stopRequested, \* stopRequested[l]: the caller wants loop l to stop
    surface,       \* surface[l]: what loop l's canvas shows
    delivered,     \* delivered[l]: payloads received by loop l's detect callback
    scopeStack,    \* tf.engine() scope stack: each scope's opener and tracked tensors
    live,          \* tensors allocated and not disposed
    load           \* the latest loadModel call: its position and its result

vars == <<config, call, canvas, payload, started, raf, inflight, rejected,
          tickNo, video, stopRequested, surface, delivered, scopeStack, live,
          load>>

detectVars == <<call, canvas, payload>>

loopVars == <<started, raf, inflight, rejected, tickNo, video, stopRequested,
              surface, delivered>>

engineVars == <<scopeStack, live>>

----------------------------------------------------------------------------
(* Values *)

\* JavaScript's undefined, as it reads once formatted into a string.
Undefined == "undefined"

\* JavaScript's null (video.srcObject).
Null == "null"

\* config.displayLabels: null is the empty tuple, a Set S the tuple <<S>>.
NoSet == <<>>

SetOf(S) == <<S>>

Max(a, b) == IF a >= b THEN a ELSE b

Min(a, b) == IF a <= b THEN a ELSE b

\* Exact rationals <<n, d>>, d > 0.
Rat(n, d) == IF d < 0 THEN <<-n, -d>> ELSE <<n, d>>

RatOfInt(i) == <<i, 1>>

RatLeq(p, q) == p[1] * q[2] <= q[1] * p[2]

RatLess(p, q) == p[1] * q[2] < q[1] * p[2]

RatEq(p, q) == p[1] * q[2] = q[1] * p[2]

\* Math.max(a, b) and Math.min(a, b)
MathMax(p, q) == IF RatLeq(q, p) THEN p ELSE q

MathMin(p, q) == IF RatLeq(p, q) THEN p ELSE q

\* Math.round of a non-negative rational: the nearest integer, halves up.
MathRound(p) == (2 * p[1] + p[2]) \div (2 * p[2])

\* Math.floor(i / 2) of an integer i
FloorHalf(i) == i \div 2

SeqOf(S, n) == UNION {[1..k -> S] : k \in 0..n}

Range(s) == {s[i] : i \in DOMAIN s}

----------------------------------------------------------------------------
(* Configuration: YOLOConfig and setup *)

Fields == {"modelUrl", "labels", "colors", "displayLabels", "scoreThreshold",
           "boxLineWidth"}

\* The first of the 80 default labels and of the 20 default colors.
DefaultLabels == <<"person", "bicycle", "car">>

DefaultColors == <<"#FF6B6B", "#FFA372">>

DefaultConfig ==
    [modelUrl |-> "", labels |-> DefaultLabels, colors |-> DefaultColors,
     displayLabels |-> NoSet, scoreThreshold |-> 50, boxLineWidth |-> 2]

\* An options object: `has` are the keys it specifies, `val` their values
\* (val of a key not in `has` is not read).
Options(has, val) == [has |-> has, val |-> val]

\* if (options.modelUrl): specified and not the empty string
TruthyString(o, f) == f \in o.has /\ o.val[f] # ""

\* if (options.labels), if (options.colors), if (options.displayLabels):
\* an array, also an empty one, is truthy
TruthyArray(o, f) == f \in o.has

\* if (options.scoreThreshold !== undefined)
NotUndefined(o, f) == f \in o.has

\* if (options.boxLineWidth): specified and not 0
TruthyNumber(o, f) == f \in o.has /\ o.val[f] # 0

\* new Set(options.displayLabels)
NewSet(arr) == SetOf(Range(arr))

\* YOLO.setup: the configuration after setup(o)
setup(cfg, o) ==
    [modelUrl |->
        IF TruthyString(o, "modelUrl") THEN o.val.modelUrl ELSE cfg.modelUrl,
     labels |->
        IF TruthyArray(o, "labels") THEN o.val.labels ELSE cfg.labels,
     colors |->
        IF TruthyArray(o, "colors") THEN o.val.colors ELSE cfg.colors,
     displayLabels |->
        IF TruthyArray(o, "displayLabels") THEN NewSet(o.val.displayLabels)
        ELSE cfg.displayLabels,
     scoreThreshold |->
        IF NotUndefined(o, "scoreThreshold") THEN o.val.scoreThreshold
        ELSE cfg.scoreThreshold,
     boxLineWidth |->
        IF TruthyNumber(o, "boxLineWidth") THEN o.val.boxLineWidth
        ELSE cfg.boxLineWidth]

----------------------------------------------------------------------------
(* Preprocessing and the letterbox: YOLO.preprocess *)

\* A source element: the size of its current frame.  hasFrame is FALSE for
\* a video element that has no frame to give (videoWidth 0).
Source(w, h) == [width |-> w, height |-> h, hasFrame |-> w > 0 /\ h > 0]

\* const [modelWidth, modelHeight] = model.inputShape.slice(1, 3)
modelWidthOf(inputShape) == inputShape[2]

modelHeightOf(inputShape) == inputShape[3]

\* const scale = Math.min(modelWidth / origWidth, modelHeight / origHeight)
scaleOf(origWidth, origHeight, modelWidth, modelHeight) ==
    MathMin(Rat(modelWidth, origWidth), Rat(modelHeight, origHeight))

\* Math.round(orig * scale)
resizedOf(orig, scale) == MathRound(Rat(orig * scale[1], scale[2]))

\* YOLO.preprocess: the letterbox details and the shape of the input tensor
\* (resized [newHeight, newWidth, 3], padded, then expandDims(0)).
preprocess(source, modelWidth, modelHeight) ==
    LET origWidth == source.width
        origHeight == source.height
        scale == scaleOf(origWidth, origHeight, modelWidth, modelHeight)
        newWidth == resizedOf(origWidth, scale)
        newHeight == resizedOf(origHeight, scale)
        dx == FloorHalf(modelWidth - newWidth)
        dy == FloorHalf(modelHeight - newHeight)
    IN  [scale |-> scale, dx |-> dx, dy |-> dy,
         origWidth |-> origWidth, origHeight |-> origHeight,
         inputShape |->
            <<1, dy + newHeight + (modelHeight - newHeight - dy),
              dx + newWidth + (modelWidth - newWidth - dx), 3>>]

----------------------------------------------------------------------------
(* Decoding the model output: YOLO.detect, lines 157-178 *)

\* One row of the transposed output: centre, size (even, so that the halves
\* are integers) and one score per class of the model.
Row(cx, cy, w, h, cls) == [cx |-> cx, cy |-> cy, w |-> w, h |-> h, cls |-> cls]

\* tf.concat([y1, x1, y2, x2], 2) of one row
boxOf(row) ==
    <<row.cy - row.h \div 2, row.cx - row.w \div 2,
      row.cy + row.h \div 2, row.cx + row.w \div 2>>

\* slice([0, 0, 4], [-1, -1, labels.length]): the first numLabels scores
rawScoresOf(row, numLabels) == SubSeq(row.cls, 1, numLabels)

\* rawScores.max(1); over no column at all the result is not a number, which
\* compares false with everything: NotANumber is below every score.
NotANumber == -1

maxOf(s) ==
    IF Len(s) = 0 THEN NotANumber
    ELSE CHOOSE m \in Range(s) : \A x \in Range(s) : x <= m

\* rawScores.argMax(1): the first index (from 0) of the maximum
argMaxOf(s) ==
    IF Len(s) = 0 THEN 0
    ELSE (CHOOSE i \in DOMAIN s :
            /\ s[i] = maxOf(s)
            /\ \A j \in DOMAIN s : s[j] = maxOf(s) => i <= j) - 1

\* The slice throws when the output has fewer than 4 + labels.length columns.
sliceFits(rows, numLabels) == \A i \in DOMAIN rows : numLabels <= Len(rows[i].cls)

decodeBoxes(rows) == [i \in DOMAIN rows |-> boxOf(rows[i])]

decodeScores(rows, numLabels) ==
    [i \in DOMAIN rows |-> maxOf(rawScoresOf(rows[i], numLabels))]

decodeClasses(rows, numLabels) ==
    [i \in DOMAIN rows |-> argMaxOf(rawScoresOf(rows[i], numLabels))]

----------------------------------------------------------------------------
(* Non-max suppression: tf.image.nonMaxSuppressionAsync as detect calls it *)

maxOutputSize == 500

iouThreshold == 45

nmsScoreThreshold == 20

area(b) ==
    (Max(b[1], b[3]) - Min(b[1], b[3])) * (Max(b[2], b[4]) - Min(b[2], b[4]))

intersection(a, b) ==
    Max(Min(Max(a[1], a[3]), Max(b[1], b[3]))
        - Max(Min(a[1], a[3]), Min(b[1], b[3])), 0)
  * Max(Min(Max(a[2], a[4]), Max(b[2], b[4]))
        - Max(Min(a[2], a[4]), Min(b[2], b[4])), 0)

\* intersectionOverUnion(a, b) >= iouThreshold, in hundredths; boxes of no
\* area have IoU 0.
iouAtLeast(a, b, thr) ==
    IF area(a) <= 0 \/ area(b) <= 0 THEN 0 >= thr
    ELSE 100 * intersection(a, b)
            >= thr * (area(a) + area(b) - intersection(a, b))

\* As bestOf, had the higher index been taken first among equal scores.
bestOfLast(S, scores) ==
    CHOOSE i \in S : \A j \in S :
        scores[i] > scores[j] \/ (scores[i] = scores[j] /\ i >= j)

\* The candidate taken next: the highest score, the lower index among equals.
bestOf(S, scores) ==
    CHOOSE i \in S : \A j \in S :
        scores[i] > scores[j] \/ (scores[i] = scores[j] /\ i <= j)

RECURSIVE nmsSelect(_, _, _, _)
nmsSelect(boxes, scores, candidates, selected) ==
    IF candidates = {} \/ Len(selected) >= maxOutputSize THEN selected
    ELSE LET i == bestOf(candidates, scores)
             suppressed == \E k \in DOMAIN selected :
                              iouAtLeast(boxes[i], boxes[selected[k]], iouThreshold)
         IN  nmsSelect(boxes, scores, candidates \ {i},
                       IF suppressed THEN selected ELSE Append(selected, i))

\* The selected indices (from 1), in the order they are selected.
nonMaxSuppression(boxes, scores) ==
    nmsSelect(boxes, scores,
              {i \in DOMAIN scores : scores[i] > nmsScoreThreshold}, <<>>)

\* t.gather(nmsIndices, 0).dataSync()
gather(t, indices) == [k \in DOMAIN indices |-> t[indices[k]]]

----------------------------------------------------------------------------
(* Back to the source image: YOLO.detect, lines 194-203 *)

\* (v - pad) / scale, for a coordinate v that is a rational
unpad(v, pad, scale) == Rat((v[1] - pad * v[2]) * scale[2], v[2] * scale[1])

\* x1 = Math.max(0, (x1 - dx) / scale)
adjustLow(v, pad, scale) == MathMax(RatOfInt(0), unpad(v, pad, scale))

\* x2 = Math.min(origWidth, (x2 - dx) / scale)
adjustHigh(v, pad, scale, orig) == MathMin(RatOfInt(orig), unpad(v, pad, scale))

\* As adjustBox, had the horizontal padding been removed from the vertical
\* coordinates and the vertical one from the horizontal.
adjustBoxSwapped(b, lb) ==
    <<adjustLow(b[1], lb.dx, lb.scale),
      adjustLow(b[2], lb.dy, lb.scale),
      adjustHigh(b[3], lb.dx, lb.scale, lb.origHeight),
      adjustHigh(b[4], lb.dy, lb.scale, lb.origWidth)>>

\* One pass of the loop, on a box [y1, x1, y2, x2] of rationals:
\* adjustedBoxes.push(y1, x1, y2, x2)
adjustBox(b, lb) ==
    <<adjustLow(b[1], lb.dy, lb.scale),
      adjustLow(b[2], lb.dx, lb.scale),
      adjustHigh(b[3], lb.dy, lb.scale, lb.origHeight),
      adjustHigh(b[4], lb.dx, lb.scale, lb.origWidth)>>

\* A box of boxesData (integers here) as the numbers the loop reads
boxData(b) == [j \in 1..4 |-> RatOfInt(b[j])]

RECURSIVE flatten(_)
flatten(bs) == IF bs = <<>> THEN <<>> ELSE Head(bs) \o flatten(Tail(bs))

\* adjustedBoxes: flat, four numbers per detection
adjustedBoxesOf(boxesData, lb) ==
    flatten([i \in DOMAIN boxesData |-> adjustBox(boxData(boxesData[i]), lb)])

\* boxesData.slice(i * 4, (i + 1) * 4), i from 0
sliceBox(flat, i) == SubSeq(flat, 4 * i + 1, 4 * i + 4)

----------------------------------------------------------------------------
(* Rendering: YOLO.renderBoxes *)

\* this.config.labels[classId]
labelAt(labels, classId) ==
    IF classId + 1 \in DOMAIN labels THEN labels[classId + 1] ELSE Undefined

\* this.config.colors[classId % this.config.colors.length]
colorAt(colors, classId) ==
    IF Len(colors) = 0 THEN Undefined ELSE colors[(classId % Len(colors)) + 1]

\* if (scoresData[i] < this.config.scoreThreshold) continue
belowThreshold(score, cfg) == score < cfg.scoreThreshold

\* if (this.config.displayLabels && !this.config.displayLabels.has(classLabel))
filteredOut(classLabel, cfg) ==
    cfg.displayLabels # NoSet /\ classLabel \notin cfg.displayLabels[1]

\* Whether the loop body draws detection i (from 1).
drawn(i, scoresData, classesData, cfg) ==
    /\ ~belowThreshold(scoresData[i], cfg)
    /\ ~filteredOut(labelAt(cfg.labels, classesData[i]), cfg)

\* What one pass of the loop puts on the canvas.
drawing(i, boxesData, scoresData, classesData, cfg) ==
    [label |-> labelAt(cfg.labels, classesData[i]),
     score |-> scoresData[i],
     color |-> colorAt(cfg.colors, classesData[i]),
     box |-> sliceBox(boxesData, i - 1),
     lineWidth |-> cfg.boxLineWidth]

RECURSIVE renderFrom(_, _, _, _, _)
renderFrom(i, boxesData, scoresData, classesData, cfg) ==
    IF i > Len(scoresData) THEN <<>>
    ELSE (IF drawn(i, scoresData, classesData, cfg)
          THEN <<drawing(i, boxesData, scoresData, classesData, cfg)>>
          ELSE <<>>)
         \o renderFrom(i + 1, boxesData, scoresData, classesData, cfg)

\* YOLO.renderBoxes: the canvas is cleared, then holds these drawings.
renderBoxes(boxesData, scoresData, classesData, cfg) ==
    renderFrom(1, boxesData, scoresData, classesData, cfg)

\* callback({boxes: adjustedBoxes, scores: ..., classes: ...})
callbackPayload(adjustedBoxes, scoresData, classesData) ==
    [boxes |-> adjustedBoxes, scores |-> scoresData, classes |-> classesData]

----------------------------------------------------------------------------
(* Inputs *)

\* Two streaming loops (detectVideo calls) run; how many ticks each is
\* followed for, and how many rows a model output has.
MaxTicks == 3

MaxRows == 2

\* How many keys an options object given to setup specifies at most.
MaxKeys == 2

\* How many scopes left open by one-shot calls that threw are followed.
MaxLeaks == 1

\* The largest width and height of the small sources preprocess is called on.
MaxDim == 5

\* How many loadModel calls are followed.
MaxLoads == 2

\* The most candidates of an output given to non-max suppression on its own.
MaxCandidates == 3

Loops == {1, 2}

\* model.inputShape of the loaded model: [1, height, width, 3]
ModelInputShape == <<1, 8, 8, 3>>

\* Sources: as large as the model input, letterboxed above and below, at
\* the sides, scaled down with a rounded size, and a video with no frame.
Sources ==
    {Source(8, 8), Source(8, 6), Source(4, 8), Source(10, 6), Source(0, 0)}

\* Rows of a model output with three classes: a confident box, a weaker one
\* over the same place, one left of the resized image, one past its far corner.
RowSet ==
    {Row(4, 4, 4, 4, <<90, 10, 0>>), Row(4, 4, 4, 2, <<10, 40, 5>>),
     Row(0, 4, 2, 2, <<0, 0, 60>>), Row(8, 8, 2, 2, <<0, 30, 0>>)}

Outputs == SeqOf(RowSet, MaxRows)

\* Candidates for non-max suppression: a confident box, a weaker one it
\* suppresses, one of the same score that overlaps the weaker one but not
\* the confident one enough, two apart from the rest with equal scores, and
\* one whose score is the score threshold itself.
NmsRowSet ==
    {Row(4, 4, 4, 4, <<90, 10, 0>>), Row(4, 4, 4, 2, <<10, 40, 5>>),
     Row(5, 4, 4, 2, <<0, 40, 0>>), Row(0, 4, 2, 2, <<0, 0, 60>>),
     Row(8, 8, 2, 2, <<60, 0, 0>>), Row(4, 4, 4, 4, <<20, 0, 0>>)}

NmsOutputs == SeqOf(NmsRowSet, MaxCandidates)

\* The sources preprocess is called on directly: every small size, and 800x600.
LetterboxSources ==
    {Source(w, h) : w \in 1..MaxDim, h \in 1..MaxDim} \cup {Source(800, 600)}

\* The [modelWidth, modelHeight] preprocess is called with.
ModelDims == {<<4, 4>>, <<4, 6>>, <<6, 4>>, <<6, 6>>, <<640, 640>>}

\* The option objects setup is called with.
OptionValues ==
    [modelUrl : {"", "model/model.json"},
     labels : {<<>>, <<"person", "car">>},
     colors : {<<"#FF0000">>},
     displayLabels : {<<>>, <<"person">>},
     scoreThreshold : {0, 30},
     boxLineWidth : {0, 4}]

SetupOptions ==
    {Options(h, v) : h \in {k \in SUBSET Fields : Cardinality(k) <= MaxKeys},
                     v \in OptionValues}

\* The option objects setup is called with around a detect call.
DetectOptionValues ==
    {[modelUrl |-> "", labels |-> l, colors |-> <<"#FF0000">>,
      displayLabels |-> <<"car">>, scoreThreshold |-> 30, boxLineWidth |-> 4] :
        l \in {<<>>, <<"a", "b", "c", "d">>}}

DetectOptions ==
    {Options({f}, v) :
        f \in {"labels", "displayLabels", "scoreThreshold"},
        v \in DetectOptionValues}

----------------------------------------------------------------------------
(* The tensor engine: tf.engine() scopes, as detect uses them *)

\* The tensors of detect call t, by the name detect and preprocess give
\* them.  t is <<loop, tick number>> for a tick of a loop and <<0, depth of
\* the scope stack at the call>> for a one-shot call.
Tensors(t, names) == {<<t, n>> : n \in names}

\* Tensors that exist when detect throws at `point`, or reaches the await
\* ("ok"): preprocess leaves the resizeBilinear result and input (it
\* disposes imgTensor, resized and padded); the tidy blocks leave nothing
\* but what they return.
tensorsBefore(point, t) ==
    CASE point = "fromPixels" -> {}
      [] point = "execute" -> Tensors(t, {"resizeBilinear", "input"})
      [] point = "slice" ->
            Tensors(t, {"resizeBilinear", "input", "res", "transposedRes", "boxes"})
      [] OTHER ->
            Tensors(t, {"resizeBilinear", "input", "res", "transposedRes",
                        "boxes", "scores", "classes"})

\* What detect reads after the await: boxes.gather, scores.gather, classes.gather
tensorsGathered(t) == Tensors(t, {"boxes", "scores", "classes"})

\* nmsIndices
tensorsOfNms(t) == Tensors(t, {"nmsIndices"})

\* The three gather results
tensorsOfGather(t) == Tensors(t, {"boxesGather", "scoresGather", "classesGather"})

\* tf.dispose([res, transposedRes, boxes, scores, classes, nmsIndices])
tensorsDisposed(t) ==
    Tensors(t, {"res", "transposedRes", "boxes", "scores", "classes", "nmsIndices"})

\* tf.engine().startScope(): a new scope becomes the active one; the tensors
\* made while it is active are tracked in it.
startScope(stack, t, made) == Append(stack, [owner |-> t, track |-> made])

\* A new tensor is tracked in the active scope, the last one opened.
track(stack, made) ==
    IF stack = <<>> THEN stack
    ELSE [stack EXCEPT ![Len(stack)].track = @ \cup made]

\* tf.engine().endScope(): the active scope is closed and what it tracks is
\* disposed.
endScopeStack(stack) == SubSeq(stack, 1, Len(stack) - 1)

endScopeLive(stack, alive) == alive \ stack[Len(stack)].track

----------------------------------------------------------------------------
(* YOLO.detect, in its two synchronous stretches *)

\* Where detect stops before the await: fromPixels throws for a source with
\* no frame, model.net.execute may throw (`executes` is FALSE), the slice
\* throws for an output with too few columns; else it reaches the await ("ok").
throwPoint(source, rows, cfg, executes) ==
    IF ~source.hasFrame THEN "fromPixels"
    ELSE IF ~executes THEN "execute"
    ELSE IF ~sliceFits(rows, Len(cfg.labels)) THEN "slice"
    ELSE "ok"

\* this.preprocess(source, modelWidth, modelHeight), with modelWidth and
\* modelHeight as detect takes them from the model's inputShape
detectInput(source, inputShape) ==
    preprocess(source, modelWidthOf(inputShape), modelHeightOf(inputShape))

\* The locals detect holds when it reaches the await: preprocess, execute,
\* transpose, and the two tidy blocks.
detectLocals(source, inputShape, rows, cfg) ==
    [pc |-> "awaiting",
     lb |-> detectInput(source, inputShape),
     boxes |-> decodeBoxes(rows),
     scores |-> decodeScores(rows, Len(cfg.labels)),
     classes |-> decodeClasses(rows, Len(cfg.labels))]

\* What detect does once nonMaxSuppressionAsync has resolved: gather,
\* adjust the boxes, size the canvas, renderBoxes (the canvas has a 2d
\* context), callback.
detectCanvas(c, cfg) ==
    LET nmsIndices == nonMaxSuppression(c.boxes, c.scores)
    IN  [width |-> c.lb.origWidth, height |-> c.lb.origHeight,
         drawings |->
            renderBoxes(adjustedBoxesOf(gather(c.boxes, nmsIndices), c.lb),
                        gather(c.scores, nmsIndices),
                        gather(c.classes, nmsIndices), cfg)]

detectPayload(c) ==
    LET nmsIndices == nonMaxSuppression(c.boxes, c.scores)
    IN  callbackPayload(adjustedBoxesOf(gather(c.boxes, nmsIndices), c.lb),
                        gather(c.scores, nmsIndices),
                        gather(c.classes, nmsIndices))

\* gather throws on a tensor that was disposed during the await.
gatherThrows(t, alive) == ~(tensorsGathered(t) \subseteq alive)

\* The scope stack and the live tensors after the second stretch of call t:
\* nmsIndices and, unless gather throws, the gather results are made, the
\* six tensors are disposed and the active scope is closed.
stackAfterDetect(stack, alive, t) ==
    IF gatherThrows(t, alive) THEN track(stack, tensorsOfNms(t))
    ELSE endScopeStack(track(stack, tensorsOfNms(t) \cup tensorsOfGather(t)))

liveAfterDetect(stack, alive, t) ==
    IF gatherThrows(t, alive) THEN alive \cup tensorsOfNms(t)
    ELSE endScopeLive(track(stack, tensorsOfNms(t) \cup tensorsOfGather(t)),
                      (alive \cup tensorsOfNms(t) \cup tensorsOfGather(t))
                         \ tensorsDisposed(t))

----------------------------------------------------------------------------
(* The one-shot detect call *)

NoLetterbox == preprocess(Source(1, 1), 1, 1)

Idle ==
    [pc |-> "idle", lb |-> NoLetterbox, boxes |-> <<>>, scores |-> <<>>,
     classes |-> <<>>]

BlankCanvas == [width |-> 0, height |-> 0, drawings |-> <<>>]

InitDetect ==
    /\ call = Idle
    /\ canvas = BlankCanvas
    /\ payload = <<>>

\* yolo.setup(o)
Setup(o) ==
    /\ config' = setup(config, o)
    /\ UNCHANGED <<detectVars, loopVars, engineVars, load>>

\* detect(source, model, canvasRef, callback) up to the await, for a model
\* of the given inputShape; payload starts to collect what this call's
\* callback receives.  model.net.execute throws, besides the failures of its
\* own, when the input tensor has not the shape the model declares.
DetectStartOn(source, inputShape, rows, executes) ==
    LET t == <<0, Len(scopeStack)>>
        fits == source.hasFrame =>
                  detectInput(source, inputShape).inputShape = inputShape
        point == throwPoint(source, rows, config, executes /\ fits)
        made == tensorsBefore(point, t)
    IN  /\ call.pc # "awaiting"
        /\ point # "ok" => Len(scopeStack) < MaxLeaks
        /\ scopeStack' = startScope(scopeStack, t, made)
        /\ live' = live \cup made
        /\ call' = IF point = "ok"
                   THEN detectLocals(source, inputShape, rows, config)
                   ELSE [Idle EXCEPT !.pc = "failed"]
        /\ payload' = <<>>
        /\ UNCHANGED <<config, load, canvas, loopVars>>

\* detect on the model of ModelInputShape
DetectStart(source, rows, executes) ==
    DetectStartOn(source, ModelInputShape, rows, executes)

\* detect on the model that the latest loadModel call returned
DetectModel(source, rows, executes) ==
    /\ load.result = "model"
    /\ DetectStartOn(source, load.inputShape, rows, executes)

\* detect from the await to its end
DetectResume ==
    LET t == <<0, Len(scopeStack) - 1>>
    IN  /\ call.pc = "awaiting"
        /\ scopeStack' = stackAfterDetect(scopeStack, live, t)
        /\ live' = liveAfterDetect(scopeStack, live, t)
        /\ IF gatherThrows(t, live)
           THEN /\ call' = [Idle EXCEPT !.pc = "failed"]
                /\ UNCHANGED <<canvas, payload>>
           ELSE /\ canvas' = detectCanvas(call, config)
                /\ payload' = Append(payload, detectPayload(call))
                /\ call' = [Idle EXCEPT !.pc = "done"]
        /\ UNCHANGED <<config, load, loopVars>>

----------------------------------------------------------------------------
(* YOLO.loadModel *)

\* net.inputs[0].shape of the models that are served: [1, height, width, 3]
InputShapes == {<<1, 8, 8, 3>>, <<1, 6, 8, 3>>, <<1, 8, 6, 3>>}

\* What the awaited tf.loadGraphModel and the warm-up do: the load is
\* rejected, net.execute(dummyInput) throws, or all goes well.
LoadOutcomes == {"fetch", "warmup", "ok"}

\* The options that name a model to load.
ModelOptions ==
    {Options({"modelUrl"},
             [modelUrl |-> "model/model.json", labels |-> <<>>, colors |-> <<>>,
              displayLabels |-> <<>>, scoreThreshold |-> 0, boxLineWidth |-> 0])}

\* calls: loadModel calls made so far.  result: "none" while the promise is
\* pending, "rejected", "null", or "model" with the model's inputShape.
NoLoad ==
    [pc |-> "idle", calls |-> 0, url |-> Undefined, result |-> "none",
     inputShape |-> <<>>]

InitLoad == load = NoLoad

\* yolo.loadModel(), up to await tf.ready()
LoadModel ==
    /\ load.pc \in {"idle", "settled"}
    /\ load.calls < MaxLoads
    /\ load' = [NoLoad EXCEPT !.pc = "ready", !.calls = load.calls + 1]
    /\ UNCHANGED <<config, detectVars, loopVars, engineVars>>

\* tf.ready() settles.  It is awaited before the try block: when no backend
\* can be initialised the rejection is loadModel's.  Else loadModel goes on
\* to tf.loadGraphModel(this.config.modelUrl) and awaits it.
BackendReady(ok) ==
    /\ load.pc = "ready"
    /\ load' = IF ok THEN [load EXCEPT !.pc = "fetching", !.url = config.modelUrl]
               ELSE [load EXCEPT !.pc = "settled", !.result = "rejected"]
    /\ UNCHANGED <<config, detectVars, loopVars, engineVars>>

\* tf.loadGraphModel settles and loadModel runs to its end: on a rejection
\* (always for the empty URL) the catch block returns null; else tf.ones,
\* the warm-up net.execute (when it throws, dummyInput stays allocated and
\* the catch block returns null), tf.dispose, return {net, inputShape}.
GraphModelLoaded(outcome, shape) ==
    LET dummyInput == Tensors(<<-1, load.calls>>, {"dummyInput"})
    IN  /\ load.pc = "fetching"
        /\ load.url = "" => outcome = "fetch"
        /\ load' = IF outcome = "ok"
                   THEN [load EXCEPT !.pc = "settled", !.result = "model",
                                     !.inputShape = shape]
                   ELSE [load EXCEPT !.pc = "settled", !.result = "null"]
        /\ IF outcome = "warmup"
           THEN /\ scopeStack' = track(scopeStack, dummyInput)
                /\ live' = live \cup dummyInput
           ELSE UNCHANGED engineVars
        /\ UNCHANGED <<config, detectVars, loopVars>>

----------------------------------------------------------------------------
(* A direct call of the public method YOLO.preprocess *)

\* yolo.preprocess(source, modelWidth, modelHeight), the first call on a new
\* instance: the caller receives the input tensor and the letterbox; the
\* resizeBilinear result is the one intermediate preprocess does not dispose.
Preprocess(source, modelWidth, modelHeight) ==
    LET made == Tensors(<<0, Len(scopeStack)>>, {"resizeBilinear", "input"})
    IN  /\ call.pc = "idle"
        /\ source.hasFrame
        /\ call' = [Idle EXCEPT !.pc = "preprocessed",
                                !.lb = preprocess(source, modelWidth, modelHeight)]
        /\ scopeStack' = track(scopeStack, made)
        /\ live' = live \cup made
        /\ UNCHANGED <<config, load, canvas, payload, loopVars>>

----------------------------------------------------------------------------
(* The streaming loop: YOLO.detectVideo *)

\* A video element: no frame and nothing attached, a stream attached that
\* has not delivered a frame yet, a playing stream.
Videos ==
    {[videoWidth |-> 0, videoHeight |-> 0, srcObject |-> Null],
     [videoWidth |-> 0, videoHeight |-> 0, srcObject |-> "MediaStream"],
     [videoWidth |-> 8, videoHeight |-> 6, srcObject |-> "MediaStream"]}

\* The model output for the frame that tick k of loop l processes; now and
\* then an output with too few columns.
FrameOutput(l, k) ==
    IF (2 * l + k) % 4 = 0 THEN <<Row(4, 4, 4, 4, <<90, 10>>)>>
    ELSE IF (l + k) % 2 = 0
    THEN <<Row(4, 4, 4, 4, <<90, 10, 0>>), Row(0, 4, 2, 2, <<0, 0, 60>>)>>
    ELSE <<Row(4, 4, 4, 2, <<10, 40, 5>>)>>

InitLoops ==
    /\ started = [l \in Loops |-> FALSE]
    /\ raf = [l \in Loops |-> 0]
    /\ inflight = [l \in Loops |-> {}]
    /\ rejected = [l \in Loops |-> FALSE]
    /\ tickNo = [l \in Loops |-> 0]
    /\ video = [l \in Loops |-> [videoWidth |-> 0, videoHeight |-> 0, srcObject |-> Null]]
    /\ stopRequested = [l \in Loops |-> FALSE]
    /\ surface = [l \in Loops |-> [tick |-> 0, canvas |-> BlankCanvas]]
    /\ delivered = [l \in Loops |-> <<>>]

InitEngine ==
    /\ scopeStack = <<>>
    /\ live = {}

\* if (videoSource.videoWidth === 0 && videoSource.srcObject === null)
noFrame(v) == v.videoWidth = 0 /\ v.srcObject = Null

\* As queuedAtAwait, had detectFrame requested the next animation frame
\* before awaiting detect instead of in detect's callback.
queuedBeforeAwait(queued) == queued + 1

\* detectFrame requests no animation frame before it awaits detect: only
\* detect's callback does.
queuedAtAwait(queued) == queued

\* detectFrame, from its start to its first await or its return; `queued`
\* are the callbacks of the loop still queued.
detectFrame(l, executes, queued) ==
    LET k == tickNo[l] + 1
        t == <<l, k>>
        v == video[l]
        source == Source(v.videoWidth, v.videoHeight)
        point == throwPoint(source, FrameOutput(l, k), config, executes)
        made == tensorsBefore(point, t)
    IN  /\ tickNo' = [tickNo EXCEPT ![l] = k]
        /\ IF noFrame(v)
           THEN /\ surface' = [surface EXCEPT ![l] =
                        [tick |-> k, canvas |-> [@.canvas EXCEPT !.drawings = <<>>]]]
                /\ raf' = [raf EXCEPT ![l] = queued + 1]
                /\ UNCHANGED <<inflight, rejected, scopeStack, live>>
           ELSE /\ scopeStack' = startScope(scopeStack, t, made)
                /\ live' = live \cup made
                /\ raf' = [raf EXCEPT ![l] = queuedAtAwait(queued)]
                /\ IF point = "ok"
                   THEN /\ inflight' = [inflight EXCEPT ![l] = @ \cup
                              {[tick |-> k,
                                locals |-> detectLocals(source, ModelInputShape,
                                                        FrameOutput(l, k), config)]}]
                        /\ UNCHANGED rejected
                   ELSE /\ rejected' = [rejected EXCEPT ![l] = TRUE]
                        /\ UNCHANGED inflight
                /\ UNCHANGED surface
        /\ UNCHANGED <<config, load, detectVars, video, stopRequested, delivered>>

\* yolo.detectVideo(videoSource, model, canvasRef): detectFrame() runs at once.
DetectVideo(l) ==
    /\ ~started[l]
    /\ started' = [started EXCEPT ![l] = TRUE]
    /\ \E executes \in BOOLEAN :
          detectFrame(l, executes, raf[l])

\* The browser runs a callback that requestAnimationFrame queued.
AnimationFrame(l) ==
    /\ raf[l] > 0
    /\ tickNo[l] < MaxTicks
    /\ UNCHANGED started
    /\ \E executes \in BOOLEAN :
          detectFrame(l, executes, raf[l] - 1)

\* As callback, had detect invoked its callback a second time.
callbackTwice(received, a) ==
    Append(Append(received, [tick |-> a.tick, payload |-> detectPayload(a.locals)]),
           [tick |-> a.tick, payload |-> detectPayload(a.locals)])

\* callback({boxes, scores, classes}): what loop l's callback has received,
\* after detect activation a invokes it.
callback(received, a) ==
    Append(received, [tick |-> a.tick, payload |-> detectPayload(a.locals)])

\* nonMaxSuppressionAsync resolves and detect runs to its end: gather (which
\* throws on a disposed tensor), adjust, render, callback (which requests
\* the next animation frame), dispose, endScope.
NmsResolved(l, a) ==
    LET t == <<l, a.tick>>
    IN  /\ a \in inflight[l]
        /\ inflight' = [inflight EXCEPT ![l] = @ \ {a}]
        /\ scopeStack' = stackAfterDetect(scopeStack, live, t)
        /\ live' = liveAfterDetect(scopeStack, live, t)
        /\ IF gatherThrows(t, live)
           THEN /\ rejected' = [rejected EXCEPT ![l] = TRUE]
                /\ UNCHANGED <<surface, delivered, raf>>
           ELSE /\ surface' = [surface EXCEPT ![l] =
                        [tick |-> a.tick, canvas |-> detectCanvas(a.locals, config)]]
                /\ delivered' = [delivered EXCEPT ![l] = callback(@, a)]
                /\ raf' = [raf EXCEPT ![l] = @ + 1]
                /\ UNCHANGED rejected
        /\ UNCHANGED <<config, load, detectVars, started, tickNo, video, stopRequested>>

\* The video element changes: it starts playing, a stream is attached, ...
VideoChange(l, v) ==
    /\ video[l] # v
    /\ video' = [video EXCEPT ![l] = v]
    /\ UNCHANGED <<config, load, detectVars, started, raf, inflight, rejected, tickNo,
                   stopRequested, surface, delivered, engineVars>>

\* The caller decides to stop loop l.  detectVideo returns nothing and keeps
\* no handle, so there is nothing for the caller to call.
RequestStop(l) ==
    /\ started[l]
    /\ ~stopRequested[l]
    /\ stopRequested' = [stopRequested EXCEPT ![l] = TRUE]
    /\ UNCHANGED <<config, load, detectVars, started, raf, inflight, rejected, tickNo,
                   video, surface, delivered, engineVars>>

----------------------------------------------------------------------------
(* Specifications *)

Init ==
    /\ config = DefaultConfig
    /\ InitDetect
    /\ InitLoops
    /\ InitEngine
    /\ InitLoad

\* The streaming loops.
Next ==
    \/ \E l \in Loops : DetectVideo(l)
    \/ \E l \in Loops : AnimationFrame(l)
    \/ \E l \in Loops : \E a \in inflight[l] : NmsResolved(l, a)
    \/ \E l \in Loops : \E v \in Videos : VideoChange(l, v)
    \/ \E l \in Loops : RequestStop(l)

Spec == Init /\ [][Next]_vars

\* One detect call at a time, with setup calls around and during it.
NextDetect ==
    \/ \E o \in DetectOptions : Setup(o)
    \/ \E source \in Sources : \E rows \in Outputs : \E executes \in BOOLEAN :
          DetectStart(source, rows, executes)
    \/ DetectResume

SpecDetect == Init /\ [][NextDetect]_vars

\* setup calls alone.
NextSetup == \E o \in SetupOptions : Setup(o)

SpecSetup == Init /\ [][NextSetup]_vars

\* loadModel calls, with setup calls around and during them.
NextLoad ==
    \/ \E o \in SetupOptions : Setup(o)
    \/ LoadModel
    \/ \E ok \in BOOLEAN : BackendReady(ok)
    \/ \E outcome \in LoadOutcomes : \E shape \in InputShapes :
          GraphModelLoaded(outcome, shape)

SpecLoad == Init /\ [][NextLoad]_vars

\* detect calls on an 8x8 image, for the candidates of NmsOutputs.
NextNms ==
    \/ \E rows \in NmsOutputs : DetectStart(Source(8, 8), rows, TRUE)
    \/ DetectResume

SpecNms == Init /\ [][NextNms]_vars

\* A model is named and loaded, and detect is called on what loadModel
\* returned.
NextModel ==
    \/ \E o \in ModelOptions : Setup(o)
    \/ LoadModel
    \/ \E ok \in BOOLEAN : BackendReady(ok)
    \/ \E outcome \in LoadOutcomes : \E shape \in InputShapes :
          GraphModelLoaded(outcome, shape)
    \/ \E source \in Sources : \E rows \in Outputs : \E executes \in BOOLEAN :
          DetectModel(source, rows, executes)
    \/ DetectResume

SpecModel == Init /\ [][NextModel]_vars

\* One direct preprocess call.
NextLetterbox ==
    \E source \in LetterboxSources : \E m \in ModelDims : Preprocess(source, m[1], m[2])

SpecLetterbox == Init /\ [][NextLetterbox]_vars

----------------------------------------------------------------------------
(* Properties of the streaming loop, under Spec *)

\* A step that starts a tick of loop l (detectFrame runs).
TickStarts(l) == tickNo'[l] = tickNo[l] + 1

\* C1: a failure while processing a frame does not stop the loop: a started
\* loop that was not cancelled always has a tick pending or in flight.
LoopKeepsTicking ==
    \A l \in Loops :
        started[l] /\ ~stopRequested[l] => raf[l] > 0 \/ inflight[l] # {}

\* C2: once a stop has been signalled for a loop, no further tick of it is
\* started (the tick in flight, if any, only finishes).
StopTakesEffect ==
    [][\A l \in Loops : stopRequested[l] => ~TickStarts(l)]_vars

\* C3: for one loop at most one tick is pending or in flight: no tick is
\* queued while one is suspended at the await, and never two are queued or
\* two suspended.
OneTickInFlight ==
    \A l \in Loops : raf[l] + Cardinality(inflight[l]) <= 1

\* C3, witness: a loop whose earlier tick went through the await and ended
\* has its next tick suspended at the await, while the other loop has a tick
\* suspended too.
LaterTickInFlight ==
    \E l \in Loops :
        /\ delivered[l] # <<>>
        /\ \E a \in inflight[l] : a.tick > delivered[l][Len(delivered[l])].tick
        /\ \E m \in Loops \ {l} : inflight[m] # {}

\* C4: a tick that starts while the video has no frame (videoWidth 0,
\* whatever is attached) is a no-op: the surface is cleared, detect does not
\* run (no scope is opened, no tensor made, nothing left in flight), nothing
\* is thrown, and the next tick is queued.
NoFrameTickIsNoOp ==
    [][\A l \in Loops :
          TickStarts(l) /\ video[l].videoWidth = 0 =>
              /\ surface'[l].tick = tickNo'[l]
              /\ surface'[l].canvas.drawings = <<>>
              /\ scopeStack' = scopeStack
              /\ live' = live
              /\ inflight'[l] = inflight[l]
              /\ ~rejected'[l]
              /\ raf'[l] > 0]_vars

\* C5: no tensor that a suspended tick still reads is disposed meanwhile
\* (by the tick of another loop ending and closing a scope it did not open).
InFlightTensorsLive ==
    \A l \in Loops : \A a \in inflight[l] :
        tensorsGathered(<<l, a.tick>>) \subseteq live

----------------------------------------------------------------------------
(* Properties of a detect call, under SpecDetect *)

\* The step in which detect runs from the await to its end.
Resumes == call.pc = "awaiting" /\ call'.pc = "done"

\* C6: a detection whose score is below config.scoreThreshold is neither
\* drawn nor present in the arrays the callback receives.
BelowThresholdNeverDelivered ==
    [][Resumes =>
          /\ \A d \in Range(canvas'.drawings) : d.score >= config.scoreThreshold
          /\ \A p \in Range(payload') : \A i \in DOMAIN p.scores :
                p.scores[i] >= config.scoreThreshold]_vars

\* C7: the callback's payload holds boxes, scores, classes and labels, one
\* entry per detection in the same order, labels[i] the label of classes[i].
PayloadHasLabels ==
    \A p \in Range(payload) :
        /\ "labels" \in DOMAIN p
        /\ Len(p.boxes) = 4 * Len(p.scores)
        /\ Len(p.classes) = Len(p.scores)
        /\ Len(p.labels) = Len(p.scores)
        /\ \A i \in DOMAIN p.scores : p.labels[i] = labelAt(config.labels, p.classes[i])

\* C9: a detection whose class id is no index of config.labels is drawn with
\* the label "unknown": every label drawn is one of config.labels or "unknown".
OutOfRangeLabelUnknown ==
    [][Resumes =>
          \A d \in Range(canvas'.drawings) :
              d.label \in Range(config.labels) \cup {"unknown"}]_vars

\* C10: every adjusted box lies inside the source image: x1 and x2 in
\* [0, origWidth], y1 and y2 in [0, origHeight] (the canvas has the
\* source's size).
AdjustedBoxesInsideSource ==
    \A p \in Range(payload) : \A i \in DOMAIN p.scores :
        LET b == sliceBox(p.boxes, i - 1)
        IN  /\ RatLeq(RatOfInt(0), b[1]) /\ RatLeq(b[1], RatOfInt(canvas.height))
            /\ RatLeq(RatOfInt(0), b[2]) /\ RatLeq(b[2], RatOfInt(canvas.width))
            /\ RatLeq(RatOfInt(0), b[3]) /\ RatLeq(b[3], RatOfInt(canvas.height))
            /\ RatLeq(RatOfInt(0), b[4]) /\ RatLeq(b[4], RatOfInt(canvas.width))

----------------------------------------------------------------------------
(* Properties of setup, under SpecSetup *)

\* The value setup(o) is given for field f.
given(o, f) == IF f = "displayLabels" THEN NewSet(o.val[f]) ELSE o.val[f]

\* C8: after setup(o) every field o specifies holds the value given, falsy
\* or not, and every other field holds the value it had.
SetupMerges ==
    [][\A o \in SetupOptions :
          Setup(o) =>
              \A f \in Fields :
                  config'[f] = IF f \in o.has THEN given(o, f) ELSE config[f]]_vars

----------------------------------------------------------------------------
(* Properties of the letterbox, under SpecLetterbox *)

\* v * scale + pad: a source coordinate in the model input
forward(v, pad, scale) == Rat(v * scale[1] + pad * scale[2], scale[2])

\* The full source rectangle (0, 0, h, w) in the model input, as [y1, x1, y2, x2]
fullRectangle(lb) ==
    <<forward(0, lb.dy, lb.scale), forward(0, lb.dx, lb.scale),
      forward(lb.origHeight, lb.dy, lb.scale),
      forward(lb.origWidth, lb.dx, lb.scale)>>

sameBox(b, y1, x1, y2, x2) ==
    /\ RatEq(b[1], RatOfInt(y1))
    /\ RatEq(b[2], RatOfInt(x1))
    /\ RatEq(b[3], RatOfInt(y2))
    /\ RatEq(b[4], RatOfInt(x2))

\* C11: the letterbox preprocess computed maps the full source rectangle
\* into the model input with its scale and padding, and the inverse
\* transform detect applies (subtract the padding, divide by the scale,
\* clamp) maps it back to (0, 0, h, w); for 800x600 into 640x640 the scale is
\* 0.8, the padding 0 and 80, and the box (80, 0, 560, 640) maps back to
\* (0, 0, 600, 800).
LetterboxRoundTrip ==
    LET lb == call.lb
    IN  /\ sameBox(adjustBox(fullRectangle(lb), lb),
                   0, 0, lb.origHeight, lb.origWidth)
        /\ (lb.origWidth = 800 /\ lb.origHeight = 600
              /\ lb.inputShape = <<1, 640, 640, 3>>)
           => /\ RatEq(lb.scale, Rat(4, 5))
              /\ lb.dx = 0
              /\ lb.dy = 80
              /\ sameBox(adjustBox(boxData(<<80, 0, 560, 640>>), lb),
                         0, 0, 600, 800)

\* preprocess was called on an 800x600 source for a 640x640 model input.
LetterboxOf800x600 ==
    /\ call.pc = "preprocessed"
    /\ call.lb.origWidth = 800
    /\ call.lb.origHeight = 600
    /\ call.lb.inputShape = <<1, 640, 640, 3>>
    /\ call.lb.dy = 80

----------------------------------------------------------------------------
(* Properties of loadModel, under SpecLoad *)

\* C12: loadModel never fails with an exception: whatever fails, backend
\* initialisation included, its promise is never rejected and settles to
\* null or to a model.
LoadNeverRejects ==
    /\ load.result # "rejected"
    /\ load.pc = "settled" => load.result \in {"null", "model"}

----------------------------------------------------------------------------
(* Properties of non-max suppression, under SpecNms *)

\* intersectionOverUnion(a, b) > thr, in hundredths
iouAbove(a, b, thr) ==
    /\ area(a) > 0
    /\ area(b) > 0
    /\ 100 * intersection(a, b) > thr * (area(a) + area(b) - intersection(a, b))

\* Candidate i comes before candidate j: higher score, or equal score and
\* lower index.
before(scores, i, j) ==
    scores[i] > scores[j] \/ (scores[i] = scores[j] /\ i < j)

\* C13: of the candidates detect gives to non-max suppression, at most 500
\* survive, no two survivors have IoU above 0.45, every survivor has a score
\* of at least 0.2, survivors come in descending score order with the lower
\* index first among equal scores, and a candidate above the score threshold
\* that does not survive overlaps a survivor that comes before it.
NmsSurvivorsBounded ==
    call.pc = "awaiting" =>
        LET boxes == call.boxes
            scores == call.scores
            sel == nonMaxSuppression(boxes, scores)
        IN  /\ Len(sel) <= maxOutputSize
            /\ \A i \in DOMAIN sel :
                  /\ sel[i] \in DOMAIN scores
                  /\ scores[sel[i]] >= nmsScoreThreshold
            /\ \A i, j \in DOMAIN sel :
                  i < j => /\ ~iouAbove(boxes[sel[i]], boxes[sel[j]], iouThreshold)
                           /\ before(scores, sel[i], sel[j])
            /\ \A k \in DOMAIN scores :
                  (scores[k] > nmsScoreThreshold /\ k \notin Range(sel))
                  => \E i \in DOMAIN sel :
                        /\ before(scores, sel[i], k)
                        /\ iouAtLeast(boxes[sel[i]], boxes[k], iouThreshold)

\* Two overlapping candidates of equal score, of which the first survives
\* and the second does not, next to a candidate at the score threshold.
EqualScoresLowerIndexSurvives ==
    /\ call.pc = "awaiting"
    /\ \E i, j \in DOMAIN call.scores :
          /\ i < j
          /\ call.scores[i] = call.scores[j]
          /\ iouAtLeast(call.boxes[i], call.boxes[j], iouThreshold)
          /\ i \in Range(nonMaxSuppression(call.boxes, call.scores))
          /\ j \notin Range(nonMaxSuppression(call.boxes, call.scores))
    /\ \E k \in DOMAIN call.scores : call.scores[k] = nmsScoreThreshold

----------------------------------------------------------------------------
(* Properties of the tensor engine, under Spec *)

\* C14: every tick releases what it allocated: when no detect call is in
\* progress, whether the calls made completed or threw, every engine scope a
\* call opened has been closed and no tensor a call created is still live.
TicksReleaseTensors ==
    (\A l \in Loops : inflight[l] = {}) => scopeStack = <<>> /\ live = {}

----------------------------------------------------------------------------
(* Properties of detect on a loaded model, under SpecModel *)

\* C15: for a model that declares the input shape [1, modelHeight,
\* modelWidth, 3], square or not, the tensor detect passes to
\* model.net.execute has that very shape, and the scale and the padding of
\* the letterbox are those of the source in modelWidth x modelHeight.
DetectInputMatchesModel ==
    [][\A source \in Sources : \A rows \in Outputs : \A executes \in BOOLEAN :
          (source.hasFrame /\ DetectModel(source, rows, executes))
          => LET lb == detectInput(source, load.inputShape)
                 height == load.inputShape[2]
                 width == load.inputShape[3]
                 scale == scaleOf(source.width, source.height, width, height)
             IN  /\ lb.inputShape = load.inputShape
                 /\ RatEq(lb.scale, scale)
                 /\ lb.dx = FloorHalf(width - resizedOf(source.width, scale))
                 /\ lb.dy = FloorHalf(height - resizedOf(source.height, scale))]_vars

----------------------------------------------------------------------------
(* Properties of the delivery of results, under Spec *)

\* The frame of tick k of loop l, as it is rendered and as it is delivered
frameLocals(l, k) ==
    detectLocals(Source(8, 6), ModelInputShape, FrameOutput(l, k), config)

\* C16: the callback is invoked once per completed frame and in order: a
\* step in which a detect call of a loop ends without throwing adds exactly
\* one delivery, of that frame's detections, to what the loop's callback
\* received, later than every delivery before it, with that frame rendered
\* on the canvas; no other step adds a delivery.
DeliveredOncePerFrame ==
    [][\A l \in Loops :
          IF \E a \in inflight[l] : a \notin inflight'[l] /\ ~rejected'[l]
          THEN \E a \in inflight[l] :
                  /\ a \notin inflight'[l]
                  /\ Len(delivered'[l]) = Len(delivered[l]) + 1
                  /\ SubSeq(delivered'[l], 1, Len(delivered[l])) = delivered[l]
                  /\ delivered'[l][Len(delivered'[l])].tick = a.tick
                  /\ delivered'[l][Len(delivered'[l])].payload
                        = detectPayload(frameLocals(l, a.tick))
                  /\ \A i \in DOMAIN delivered[l] : delivered[l][i].tick < a.tick
                  /\ surface'[l].tick = a.tick
                  /\ surface'[l].canvas = detectCanvas(frameLocals(l, a.tick), config)
          ELSE delivered'[l] = delivered[l]]_vars

\* A loop has delivered two frames, a tick without a frame came between or
\* before them, and the other loop has a call that threw and no delivery.
TwoFramesDelivered ==
    \E l \in Loops :
        /\ Len(delivered[l]) >= 2
        /\ delivered[l][Len(delivered[l])].tick > Len(delivered[l])
        /\ \E m \in Loops \ {l} : rejected[m] /\ delivered[m] = <<>>

=============================================================================
